---- MODULE Spec2Model ----
(***************************************************************************)
(* rmachine: a fetch-decode-execute engine over a sparse byte memory and   *)
(* a register file with a hardwired-zero register (src/src/lib.rs).        *)
(*                                                                         *)
(* A Word (u32) is held as a pair <<hi, lo>> of 16-bit halves, value       *)
(* hi * 2^16 + lo, so that the full 32-bit range and its overflow are      *)
(* represented exactly.                                                    *)
(***************************************************************************)
EXTENDS Integers, Sequences, FiniteSets, TLC

VARIABLES
    pc,               \* Machine.pc
    mem,              \* Machine.mem.inner  : sparse map Address -> u8
    regs,             \* Machine.regs.inner : sparse map RegisterID -> Word
    stdout,           \* Machine.stdout     : Option<W>, W an in-memory byte sink
    overflow_checks,  \* build profile: are u32 additions overflow-checked
    status,           \* position of the caller: "setup", "running", "returned", "aborted"
    result,           \* what run returned, or the panic that aborted it
    last,             \* history: the operation that produced this state
    writes,           \* history: (addr, len) of the Write syscalls executed so far
    fetched           \* history: the pc of every call of Machine::next so far

vars == <<pc, mem, regs, stdout, overflow_checks, status, result, last, writes, fetched>>

----------------------------------------------------------------------------
(* Bounds of the model *)

\* longest program image, in instructions
MaxProg == 2

----------------------------------------------------------------------------
(* Word = u32 arithmetic *)

Half == 65536
Byte == 256

ToWord(n) == <<n \div Half, n % Half>>

WordToNat(w) == w[1] * Half + w[2]

ZeroWord == ToWord(0)

\* u32::MAX, 0xFFFF_FFFF
MaxWord == <<Half - 1, Half - 1>>

\* a + b on u32: the wrapped sum, and whether the true sum left the range
AddU32(a, b) ==
    LET lo == a[2] + b[2]
        hi == a[1] + b[1] + (lo \div Half)
    IN  [value |-> <<hi % Half, lo % Half>>, overflow |-> hi >= Half]

\* the `+` operator as built: with overflow checks an overflowing sum panics
PlusPanics(a, b) == overflow_checks /\ AddU32(a, b).overflow

Plus(a, b) == AddU32(a, b).value

----------------------------------------------------------------------------
(* Error, Result *)

NoResult == [kind |-> "None", code |-> "", value |-> ZeroWord]

Ok == [kind |-> "Ok", code |-> "", value |-> ZeroWord]

Err(code, value) == [kind |-> "Err", code |-> code, value |-> value]

Panic(msg) == [kind |-> "Panic", code |-> msg, value |-> ZeroWord]

----------------------------------------------------------------------------
(* Memory *)

\* mutant: an unmapped address reads as 1
MemoryGetDefaultOne(m, addr) == IF addr \in DOMAIN m THEN m[addr] ELSE 1

MemoryGet(m, addr) == IF addr \in DOMAIN m THEN m[addr] ELSE 0

\* mutant: a get of an unmapped address inserts the default (entry().or_insert)
MemoryAfterGetInserting(m, addr) ==
    [a \in DOMAIN m \cup {addr} |-> IF a \in DOMAIN m THEN m[a] ELSE 0]

\* the map after Memory::get(addr): get takes &self and inserts nothing
MemoryAfterGet(m, addr) == m

\* Memory::read: len consecutive gets; the address sum addr + offset is a
\* u32 addition.  Yields the bytes read, or panicked = TRUE when an address
\* sum overflowed in a build with overflow checks.
RECURSIVE ReadFrom(_, _, _, _)
ReadFrom(m, addr, offset, len) ==
    IF offset >= len
    THEN [panicked |-> FALSE, data |-> <<>>]
    ELSE IF PlusPanics(addr, ToWord(offset))
         THEN [panicked |-> TRUE, data |-> <<>>]
         ELSE LET rest == ReadFrom(m, addr, offset + 1, len)
              IN  [panicked |-> rest.panicked,
                   data |-> <<MemoryGet(m, Plus(addr, ToWord(offset)))>> \o rest.data]

MemoryRead(m, addr, len) == ReadFrom(m, addr, 0, len)

\* the map after Memory::read(addr, len): after each get the loop reaches
RECURSIVE MemoryAfterReadFrom(_, _, _, _)
MemoryAfterReadFrom(m, addr, offset, len) ==
    IF offset >= len \/ PlusPanics(addr, ToWord(offset))
    THEN m
    ELSE MemoryAfterReadFrom(MemoryAfterGet(m, Plus(addr, ToWord(offset))),
                             addr, offset + 1, len)

MemoryAfterRead(m, addr, len) == MemoryAfterReadFrom(m, addr, 0, len)

----------------------------------------------------------------------------
(* Registers *)

RegisterNames ==
    <<"X0", "A0", "A1", "A2", "A3", "A4", "A5", "A6",
      "A7", "A8", "A9", "A10", "A11", "A12", "RA", "SP">>

RegisterID == {RegisterNames[i] : i \in 1..Len(RegisterNames)}

RegistersDefault == [r \in {} |-> ZeroWord]

RegistersGet(rs, reg) == IF reg \in DOMAIN rs THEN rs[reg] ELSE ZeroWord

\* mutant: the hardwired-zero guard is missing
RegistersSetUnguarded(rs, reg, value) ==
    [r \in DOMAIN rs \cup {reg} |-> IF r = reg THEN value ELSE rs[r]]

RegistersSet(rs, reg, value) ==
    LET v == IF reg = "X0" THEN ZeroWord ELSE value
    IN  [r \in DOMAIN rs \cup {reg} |-> IF r = reg THEN v ELSE rs[r]]

----------------------------------------------------------------------------
(* Decoding *)

SYS_WRITE == 64

\* mutant: the error does not carry the offending identifier
SyscallTryFromLossy(word) ==
    IF word = ToWord(SYS_WRITE)
    THEN [ok |-> TRUE, syscall |-> "Write", error |-> NoResult]
    ELSE [ok |-> FALSE, syscall |-> "", error |-> Err("SyscallUnknown", ZeroWord)]

SyscallTryFrom(word) ==
    IF word = ToWord(SYS_WRITE)
    THEN [ok |-> TRUE, syscall |-> "Write", error |-> NoResult]
    ELSE [ok |-> FALSE, syscall |-> "", error |-> Err("SyscallUnknown", word)]

\* mutant: the all-zero opcode field is accepted, as a halt
OpcodeTryFromZeroHalts(n) ==
    CASE n = 1  -> [ok |-> TRUE, opcode |-> "LoadImmediate", error |-> NoResult]
      [] n = 2  -> [ok |-> TRUE, opcode |-> "Add", error |-> NoResult]
      [] n = 23 -> [ok |-> TRUE, opcode |-> "ECall", error |-> NoResult]
      [] n \in {0, 24} -> [ok |-> TRUE, opcode |-> "EBreak", error |-> NoResult]
      [] OTHER  -> [ok |-> FALSE, opcode |-> "", error |-> Err("OpcodeUnknown", ToWord(n))]

OpcodeTryFrom(n) ==
    CASE n = 1  -> [ok |-> TRUE, opcode |-> "LoadImmediate", error |-> NoResult]
      [] n = 2  -> [ok |-> TRUE, opcode |-> "Add", error |-> NoResult]
      [] n = 23 -> [ok |-> TRUE, opcode |-> "ECall", error |-> NoResult]
      [] n = 24 -> [ok |-> TRUE, opcode |-> "EBreak", error |-> NoResult]
      [] OTHER  -> [ok |-> FALSE, opcode |-> "", error |-> Err("OpcodeUnknown", ToWord(n))]

RegisterIDTryFrom(n) ==
    IF n \in 0..15
    THEN [ok |-> TRUE, reg |-> RegisterNames[n + 1], error |-> NoResult]
    ELSE [ok |-> FALSE, reg |-> "", error |-> Err("RegisterUnknown", ToWord(n))]

\* u16::try_from(word >> 17)
ImmTryFrom(n) ==
    IF n < Half
    THEN [ok |-> TRUE, imm |-> n, error |-> NoResult]
    ELSE [ok |-> FALSE, imm |-> 0, error |-> Err("ImmediateValue", ToWord(n))]

NoInstruction == [opcode |-> "", rd |-> "", rs1 |-> "", rs2 |-> "", imm |-> 0]

\* mutant: the opcode is masked with 0xf
InstructionTryFromNarrowMask(word) ==
    LET hi == word[1]
        lo == word[2]
        opcode == OpcodeTryFrom(lo % 16)
        rd     == RegisterIDTryFrom((lo \div 32) % 16)
        rs1    == RegisterIDTryFrom((lo \div 512) % 16)
        rs2    == RegisterIDTryFrom(((lo \div 8192) + (hi % 2) * 8) % 16)
        imm    == ImmTryFrom(hi \div 2)
    IN  IF ~opcode.ok THEN [ok |-> FALSE, instr |-> NoInstruction, error |-> opcode.error]
        ELSE IF ~rd.ok THEN [ok |-> FALSE, instr |-> NoInstruction, error |-> rd.error]
        ELSE IF ~rs1.ok THEN [ok |-> FALSE, instr |-> NoInstruction, error |-> rs1.error]
        ELSE IF ~rs2.ok THEN [ok |-> FALSE, instr |-> NoInstruction, error |-> rs2.error]
        ELSE IF ~imm.ok THEN [ok |-> FALSE, instr |-> NoInstruction, error |-> imm.error]
        ELSE [ok |-> TRUE,
              instr |-> [opcode |-> opcode.opcode, rd |-> rd.reg, rs1 |-> rs1.reg,
                         rs2 |-> rs2.reg, imm |-> imm.imm],
              error |-> NoResult]

\* mutant: rs2 is read from the low half of the word only (bit 16 dropped)
InstructionTryFromRs2Low(word) ==
    LET hi == word[1]
        lo == word[2]
        opcode == OpcodeTryFrom(lo % 32)
        rd     == RegisterIDTryFrom((lo \div 32) % 16)
        rs1    == RegisterIDTryFrom((lo \div 512) % 16)
        rs2    == RegisterIDTryFrom((lo \div 8192) % 16)
        imm    == ImmTryFrom(hi \div 2)
    IN  IF ~opcode.ok THEN [ok |-> FALSE, instr |-> NoInstruction, error |-> opcode.error]
        ELSE IF ~rd.ok THEN [ok |-> FALSE, instr |-> NoInstruction, error |-> rd.error]
        ELSE IF ~rs1.ok THEN [ok |-> FALSE, instr |-> NoInstruction, error |-> rs1.error]
        ELSE IF ~rs2.ok THEN [ok |-> FALSE, instr |-> NoInstruction, error |-> rs2.error]
        ELSE IF ~imm.ok THEN [ok |-> FALSE, instr |-> NoInstruction, error |-> imm.error]
        ELSE [ok |-> TRUE,
              instr |-> [opcode |-> opcode.opcode, rd |-> rd.reg, rs1 |-> rs1.reg,
                         rs2 |-> rs2.reg, imm |-> imm.imm],
              error |-> NoResult]

\* Instruction::try_from(word): the fields in the order the code extracts them,
\* the first failing conversion returning its error
InstructionTryFrom(word) ==
    LET hi == word[1]
        lo == word[2]
        opcode == OpcodeTryFrom(lo % 32)
        rd     == RegisterIDTryFrom((lo \div 32) % 16)
        rs1    == RegisterIDTryFrom((lo \div 512) % 16)
        rs2    == RegisterIDTryFrom(((lo \div 8192) + (hi % 2) * 8) % 16)
        imm    == ImmTryFrom(hi \div 2)
    IN  IF ~opcode.ok THEN [ok |-> FALSE, instr |-> NoInstruction, error |-> opcode.error]
        ELSE IF ~rd.ok THEN [ok |-> FALSE, instr |-> NoInstruction, error |-> rd.error]
        ELSE IF ~rs1.ok THEN [ok |-> FALSE, instr |-> NoInstruction, error |-> rs1.error]
        ELSE IF ~rs2.ok THEN [ok |-> FALSE, instr |-> NoInstruction, error |-> rs2.error]
        ELSE IF ~imm.ok THEN [ok |-> FALSE, instr |-> NoInstruction, error |-> imm.error]
        ELSE [ok |-> TRUE,
              instr |-> [opcode |-> opcode.opcode, rd |-> rd.reg, rs1 |-> rs1.reg,
                         rs2 |-> rs2.reg, imm |-> imm.imm],
              error |-> NoResult]

\* mutant: u32::from_le_bytes
FromLeBytes(b1, b2, b3, b4) == <<b4 * Byte + b3, b2 * Byte + b1>>

\* u32::from_be_bytes
FromBeBytes(b1, b2, b3, b4) == <<b1 * Byte + b2, b3 * Byte + b4>>

\* Machine::next, the byte addresses pc + 1, pc + 2, pc + 3 being u32 sums
FetchPanics(p) ==
    \E k \in 1..3 : PlusPanics(p, ToWord(k))

FetchWord(m, p) ==
    FromBeBytes(MemoryGet(m, p),
                MemoryGet(m, Plus(p, ToWord(1))),
                MemoryGet(m, Plus(p, ToWord(2))),
                MemoryGet(m, Plus(p, ToWord(3))))

MachineNext(m, p) == InstructionTryFrom(FetchWord(m, p))

\* the map after the gets of Machine::next, as far as the address sums let it go
MemoryAfterNext(m, p) ==
    LET m1 == MemoryAfterGet(m, p)
        m2 == IF PlusPanics(p, ToWord(1)) THEN m1 ELSE MemoryAfterGet(m1, Plus(p, ToWord(1)))
        m3 == IF PlusPanics(p, ToWord(2)) THEN m2 ELSE MemoryAfterGet(m2, Plus(p, ToWord(2)))
    IN  IF PlusPanics(p, ToWord(3)) THEN m3 ELSE MemoryAfterGet(m3, Plus(p, ToWord(3)))

----------------------------------------------------------------------------
(* Inputs: program images and register values the caller supplies *)

\* the instruction word with the given fields (the layout InstructionTryFrom reads)
Encode(opcode, rd, rs1, rs2, imm) ==
    <<imm * 2 + (rs2 \div 8), (rs2 % 8) * 8192 + rs1 * 512 + rd * 32 + opcode>>

SampleWords ==
    { Encode(1, 2, 0, 0, 3),        \* LoadImmediate A1, 3
      Encode(1, 0, 0, 0, 32767),    \* LoadImmediate X0, 0x7fff
      Encode(2, 1, 2, 3, 1),        \* Add A0, A1, A2, 1
      Encode(2, 0, 2, 2, 0),        \* Add X0, A1, A1, 0
      Encode(23, 0, 0, 0, 0),       \* ECall
      Encode(24, 0, 0, 0, 0),       \* EBreak
      MaxWord }                     \* opcode field 31: not an instruction

ProgramsUpTo(n) == UNION {[1..k -> SampleWords] : k \in 0..n}

Programs == ProgramsUpTo(MaxProg)

\* the byte at offset a of the image: word a \div 4, big-endian
ImageByte(prog, a) ==
    LET w == prog[(a \div 4) + 1]
    IN  CASE a % 4 = 0 -> w[1] \div Byte
          [] a % 4 = 1 -> w[1] % Byte
          [] a % 4 = 2 -> w[2] \div Byte
          [] OTHER     -> w[2] % Byte

\* Memory::from: the image loaded at address 0
MemoryFrom(prog) ==
    [addr \in {ToWord(a) : a \in 0..(4 * Len(prog) - 1)} |-> ImageByte(prog, WordToNat(addr))]

\* (register, value) pairs the caller passes to Registers::set before run
SetSamples ==
    { <<"X0", ToWord(42)>>, <<"A0", ToWord(1)>>, <<"A1", MaxWord>>,
      <<"A2", ToWord(4)>>, <<"A7", ToWord(SYS_WRITE)>>, <<"A7", ToWord(63)>> }

----------------------------------------------------------------------------
(* The machine *)

None == [some |-> FALSE, data |-> <<>>]

Some(data) == [some |-> TRUE, data |-> data]

NoOp == [op |-> "new", rd |-> ""]

\* Machine::new, with or without a sink attached
Init ==
    /\ pc = ZeroWord
    /\ mem = [a \in {} |-> 0]
    /\ regs = RegistersDefault
    /\ stdout \in {None, Some(<<>>)}
    /\ overflow_checks \in BOOLEAN
    /\ status = "setup"
    /\ result = NoResult
    /\ last = NoOp
    /\ writes = <<>>
    /\ fetched = <<>>

\* the caller writes a register through Registers::set
Set(reg, value) ==
    /\ status = "setup"
    /\ regs' = RegistersSet(regs, reg, value)
    /\ last' = [op |-> "set", rd |-> reg]
    /\ UNCHANGED <<pc, mem, stdout, overflow_checks, status, result, writes, fetched>>

\* the caller preloads the image and calls run
Run(prog) ==
    /\ status = "setup"
    /\ mem' = MemoryFrom(prog)
    /\ status' = "running"
    /\ last' = [op |-> "run", rd |-> ""]
    /\ UNCHANGED <<pc, regs, stdout, overflow_checks, result, writes, fetched>>

INSTRUCTION_WIDTH == 4

\* what the cycle at pc does: "panic" (an address sum overflowed), "error"
\* (decoding failed) or the decoded opcode
Dispatch ==
    IF FetchPanics(pc) THEN "panic"
    ELSE IF ~MachineNext(mem, pc).ok THEN "error"
    ELSE MachineNext(mem, pc).instr.opcode

Decoded == MachineNext(mem, pc).instr

\* self.pc += 4
PcPanics == PlusPanics(pc, ToWord(INSTRUCTION_WIDTH))

\* mutant: the counter is advanced by one word slot, not by the bytes of a word
AdvanceWordSlot == Plus(pc, ToWord(1))

Advance == Plus(pc, ToWord(INSTRUCTION_WIDTH))

OverflowMsg == "attempt to add with overflow"

\* the machine after a cycle: every field the cycle may write
After(p, rs, out, st, res) ==
    [pc |-> p, regs |-> rs, stdout |-> out, status |-> st, result |-> res]

Abort(p, msg) == After(p, regs, stdout, "aborted", Panic(msg))

\* whether the cycle at pc reaches mem.read of the Write syscall
ReachesRead ==
    /\ Dispatch = "ECall"
    /\ ~PcPanics
    /\ SyscallTryFrom(RegistersGet(regs, "A7")).ok
    /\ RegistersGet(regs, "A0") = ToWord(1)

\* the memory after the cycle at pc: after the gets of the fetch and of the read
MemoryAfterCycle ==
    LET m == MemoryAfterNext(mem, pc)
    IN  IF ReachesRead
        THEN MemoryAfterRead(m, RegistersGet(regs, "A1"), WordToNat(RegistersGet(regs, "A2")))
        ELSE m

Commit(next) ==
    /\ pc' = next.pc
    /\ regs' = next.regs
    /\ stdout' = next.stdout
    /\ status' = next.status
    /\ result' = next.result
    /\ mem' = MemoryAfterCycle
    /\ fetched' = Append(fetched, pc)
    /\ UNCHANGED overflow_checks

\* mutant: the counter is advanced before the decode error is returned
ExecFaultAdvanced ==
    IF Dispatch = "panic"
    THEN Abort(pc, OverflowMsg)
    ELSE After(Advance, regs, stdout, "returned", MachineNext(mem, pc).error)

\* self.next()? failed: run returns the error before anything else happens
ExecFault ==
    IF Dispatch = "panic"
    THEN Abort(pc, OverflowMsg)
    ELSE After(pc, regs, stdout, "returned", MachineNext(mem, pc).error)

\* mutant: the immediate is narrowed to a byte before it is widened
ExecLoadImmediateTruncated(i) ==
    IF PcPanics THEN Abort(pc, OverflowMsg)
    ELSE After(Advance, RegistersSet(regs, i.rd, ToWord(i.imm % Byte)), stdout, "running", NoResult)

ExecLoadImmediate(i) ==
    IF PcPanics THEN Abort(pc, OverflowMsg)
    ELSE After(Advance, RegistersSet(regs, i.rd, ToWord(i.imm)), stdout, "running", NoResult)

\* mutant: the sum is checked and an overflow is returned as a typed error
ExecAddChecked(i) ==
    LET rs1 == RegistersGet(regs, i.rs1)
        rs2 == RegistersGet(regs, i.rs2)
        imm == ToWord(i.imm)
    IN  IF PcPanics THEN Abort(pc, OverflowMsg)
        ELSE IF AddU32(rs1, rs2).overflow \/ AddU32(Plus(rs1, rs2), imm).overflow
        THEN After(Advance, regs, stdout, "returned", Err("Overflow", ZeroWord))
        ELSE After(Advance, RegistersSet(regs, i.rd, Plus(Plus(rs1, rs2), imm)),
                   stdout, "running", NoResult)

ExecAdd(i) ==
    LET rs1 == RegistersGet(regs, i.rs1)
        rs2 == RegistersGet(regs, i.rs2)
        imm == ToWord(i.imm)
    IN  IF PcPanics THEN Abort(pc, OverflowMsg)
        ELSE IF PlusPanics(rs1, rs2) THEN Abort(Advance, OverflowMsg)
        ELSE IF PlusPanics(Plus(rs1, rs2), imm) THEN Abort(Advance, OverflowMsg)
        ELSE After(Advance, RegistersSet(regs, i.rd, Plus(Plus(rs1, rs2), imm)),
                   stdout, "running", NoResult)

FdMsg == "expected file descriptor to specify stdout (1)"

\* mutant: the new bytes are put in front of the old ones
WriteAllPrepend(out, data) == Some(data \o out.data)

\* stdout.write_all(&data) on the in-memory sink
WriteAll(out, data) == Some(out.data \o data)

\* the buffer the Write syscall reads: mem.read(A1, A2 as usize)
WriteBuffer == MemoryRead(mem, RegistersGet(regs, "A1"), WordToNat(RegistersGet(regs, "A2")))

\* mutant: the descriptor is asserted only once a sink is found
ExecECallFdAfterSink ==
    LET syscall == SyscallTryFrom(RegistersGet(regs, "A7"))
        fd == RegistersGet(regs, "A0")
    IN  IF PcPanics THEN Abort(pc, OverflowMsg)
        ELSE IF ~syscall.ok THEN After(Advance, regs, stdout, "returned", syscall.error)
        ELSE IF WriteBuffer.panicked THEN Abort(Advance, OverflowMsg)
        ELSE IF ~stdout.some THEN After(Advance, regs, stdout, "running", NoResult)
        ELSE IF fd # ToWord(1) THEN Abort(Advance, FdMsg)
        ELSE After(Advance, regs, WriteAll(stdout, WriteBuffer.data), "running", NoResult)

\* mutant: the Write syscall stores the length written in the word's rd
ExecECallResultInRd ==
    LET syscall == SyscallTryFrom(RegistersGet(regs, "A7"))
        fd == RegistersGet(regs, "A0")
    IN  IF PcPanics THEN Abort(pc, OverflowMsg)
        ELSE IF ~syscall.ok THEN After(Advance, regs, stdout, "returned", syscall.error)
        ELSE IF fd # ToWord(1) THEN Abort(Advance, FdMsg)
        ELSE IF WriteBuffer.panicked THEN Abort(Advance, OverflowMsg)
        ELSE After(Advance, RegistersSet(regs, Decoded.rd, RegistersGet(regs, "A2")),
                   IF stdout.some THEN WriteAll(stdout, WriteBuffer.data) ELSE stdout,
                   "running", NoResult)

ExecECall ==
    LET syscall == SyscallTryFrom(RegistersGet(regs, "A7"))
        fd == RegistersGet(regs, "A0")
    IN  IF PcPanics THEN Abort(pc, OverflowMsg)
        ELSE IF ~syscall.ok THEN After(Advance, regs, stdout, "returned", syscall.error)
        ELSE IF fd # ToWord(1) THEN Abort(Advance, FdMsg)
        ELSE IF WriteBuffer.panicked THEN Abort(Advance, OverflowMsg)
        ELSE After(Advance, regs,
                   IF stdout.some THEN WriteAll(stdout, WriteBuffer.data) ELSE stdout,
                   "running", NoResult)

\* whether this ECall cycle gets as far as handing a buffer to the sink
WriteExecuted == ExecECall.status = "running"

\* history record of an executed Write syscall: the buffer it was asked to write
WriteRequest ==
    [addr |-> RegistersGet(regs, "A1"), len |-> WordToNat(RegistersGet(regs, "A2"))]

\* mutant: the loop is left before the counter is advanced
ExecEBreakNoAdvance ==
    IF PcPanics THEN Abort(pc, OverflowMsg)
    ELSE After(pc, regs, stdout, "returned", Ok)

ExecEBreak ==
    IF PcPanics THEN Abort(pc, OverflowMsg)
    ELSE After(Advance, regs, stdout, "returned", Ok)

StepFault ==
    /\ status = "running"
    /\ Dispatch \in {"panic", "error"}
    /\ Commit(ExecFault)
    /\ last' = [op |-> "fault", rd |-> ""]
    /\ UNCHANGED writes

StepLoadImmediate ==
    /\ status = "running"
    /\ Dispatch = "LoadImmediate"
    /\ Commit(ExecLoadImmediate(Decoded))
    /\ last' = [op |-> "LoadImmediate", rd |-> Decoded.rd]
    /\ UNCHANGED writes

StepAdd ==
    /\ status = "running"
    /\ Dispatch = "Add"
    /\ Commit(ExecAdd(Decoded))
    /\ last' = [op |-> "Add", rd |-> Decoded.rd]
    /\ UNCHANGED writes

StepECall ==
    /\ status = "running"
    /\ Dispatch = "ECall"
    /\ Commit(ExecECall)
    /\ last' = [op |-> "ECall", rd |-> Decoded.rd]
    /\ writes' = IF WriteExecuted THEN Append(writes, WriteRequest) ELSE writes

StepEBreak ==
    /\ status = "running"
    /\ Dispatch = "EBreak"
    /\ Commit(ExecEBreak)
    /\ last' = [op |-> "EBreak", rd |-> Decoded.rd]
    /\ UNCHANGED writes

Next ==
    \/ \E s \in SetSamples : Set(s[1], s[2])
    \/ \E prog \in Programs : Run(prog)
    \/ StepFault
    \/ StepLoadImmediate
    \/ StepAdd
    \/ StepECall
    \/ StepEBreak

Spec == Init /\ [][Next]_vars

----------------------------------------------------------------------------
(* A second specification: the two-instruction program LoadImmediate(rd, imm); *)
(* EBreak, run from the zeroed machine, for every rd and sampled immediates.   *)

ImmSamples == {0, 1, 2, 255, 256, 32767}

InitLI ==
    /\ pc = ZeroWord
    /\ \E rd \in 0..15, imm \in ImmSamples :
          mem = MemoryFrom(<<Encode(1, rd, 0, 0, imm), Encode(24, 0, 0, 0, 0)>>)
    /\ regs = RegistersDefault
    /\ stdout \in {None, Some(<<>>)}
    /\ overflow_checks \in BOOLEAN
    /\ status = "running"
    /\ result = NoResult
    /\ last = [op |-> "run", rd |-> ""]
    /\ writes = <<>>
    /\ fetched = <<>>

NextLI ==
    \/ StepLoadImmediate
    \/ StepEBreak

SpecLI == InitLI /\ [][NextLI]_vars

----------------------------------------------------------------------------
(* A third specification: run entered with the registers of a Write syscall  *)
(* (A7 = 64, A0 = 1, written through Registers::set), with or without a      *)
(* length and a buffer address, over images one instruction longer.          *)

WriteReadyRegs ==
    LET base == RegistersSet(RegistersSet(RegistersDefault, "A7", ToWord(SYS_WRITE)),
                             "A0", ToWord(1))
        long == RegistersSet(base, "A2", ToWord(4))
    IN  {base, long, RegistersSet(base, "A1", MaxWord), RegistersSet(long, "A1", MaxWord)}

InitWrite ==
    /\ pc = ZeroWord
    /\ mem \in {MemoryFrom(prog) : prog \in ProgramsUpTo(MaxProg + 1)}
    /\ regs \in WriteReadyRegs
    /\ stdout \in {None, Some(<<>>)}
    /\ overflow_checks \in BOOLEAN
    /\ status = "running"
    /\ result = NoResult
    /\ last = [op |-> "run", rd |-> ""]
    /\ writes = <<>>
    /\ fetched = <<>>

NextRun ==
    \/ StepFault
    \/ StepLoadImmediate
    \/ StepAdd
    \/ StepECall
    \/ StepEBreak

SpecWrite == InitWrite /\ [][NextRun]_vars

----------------------------------------------------------------------------
(* Fetching and decoding one word: Machine::next on a machine whose memory   *)
(* maps any of the four bytes of an instruction word, every opcode field,    *)
(* every register encoding in every register field, immediates at the byte   *)
(* edges.                                                                    *)

\* Memory::from over the (address, byte) pairs of the image at the offsets in S
MemoryFromPart(prog, S) ==
    [addr \in {ToWord(a) : a \in S} |-> ImageByte(prog, WordToNat(addr))]

\* (rd, rs1, rs2) encodings: each of 0..15 in each field, and the corners
DecodeRegs ==
    {<<r, (r + 5) % 16, (r + 11) % 16>> : r \in 0..15} \cup
    ({0, 15} \X {0, 15} \X {0, 15})

DecodeImms == {0, 1, 128, 32767}

DecodeWords ==
    {Encode(op, f[1], f[2], f[3], imm) : op \in 0..31, f \in DecodeRegs, imm \in DecodeImms}

InitDecode ==
    /\ pc = ZeroWord
    /\ mem \in {MemoryFromPart(<<w>>, S) : w \in DecodeWords,
                                            S \in SUBSET (0..(INSTRUCTION_WIDTH - 1))}
    /\ regs = RegistersDefault
    /\ stdout = None
    /\ overflow_checks \in BOOLEAN
    /\ status = "setup"
    /\ result = NoResult
    /\ last = NoOp
    /\ writes = <<>>
    /\ fetched = <<>>

\* self.next(): the word fetched at pc and what decoding it returns
DecodeNext ==
    /\ fetched = <<>>
    /\ ~FetchPanics(pc)
    /\ LET d == MachineNext(mem, pc)
       IN  /\ result' = IF d.ok THEN Ok ELSE d.error
           /\ last' = [op |-> "next", rd |-> "", word |-> FetchWord(mem, pc), instr |-> d.instr]
    /\ mem' = MemoryAfterNext(mem, pc)
    /\ fetched' = Append(fetched, pc)
    /\ UNCHANGED <<pc, regs, stdout, overflow_checks, status, writes>>

SpecDecode == InitDecode /\ [][DecodeNext]_vars

----------------------------------------------------------------------------
(* One cycle over every field combination: a one-word image whose word has   *)
(* any opcode (0 for an undefined one), register encodings and immediate,    *)
(* run on register files built by Registers::set and Registers::from.        *)

CycleWords ==
    {Encode(op, f[1], f[2], f[3], imm) :
        op \in {0, 1, 2, 23, 24}, f \in DecodeRegs, imm \in DecodeImms}

\* Registers::from: every register but X0 holding its own encoding
NumberedRegs ==
    [r \in RegisterID \ {"X0"} |->
        ToWord((CHOOSE n \in 1..Len(RegisterNames) : RegisterNames[n] = r) - 1)]

CycleRegs ==
    WriteReadyRegs \cup
    {RegistersDefault, NumberedRegs, RegistersSet(NumberedRegs, "A7", ToWord(SYS_WRITE))}

InitCycle ==
    /\ pc = ZeroWord
    /\ mem \in {MemoryFrom(<<w>>) : w \in CycleWords}
    /\ regs \in CycleRegs
    /\ stdout \in {None, Some(<<>>)}
    /\ overflow_checks \in BOOLEAN
    /\ status = "running"
    /\ result = NoResult
    /\ last = [op |-> "run", rd |-> ""]
    /\ writes = <<>>
    /\ fetched = <<>>

SpecCycle == InitCycle /\ [][NextRun]_vars

----------------------------------------------------------------------------
(* Runs over images that stop anywhere: the first n bytes of a program, or   *)
(* the program without its first word. run is a loop that goes on to its    *)
(* next fetch unconditionally, so the fetches are taken under weak fairness. *)

ImageParts(prog) ==
    {0..(n - 1) : n \in 0..(INSTRUCTION_WIDTH * Len(prog))} \cup
    {INSTRUCTION_WIDTH..(INSTRUCTION_WIDTH * Len(prog) - 1)}

ImageRegs ==
    LET ready == RegistersSet(RegistersSet(RegistersSet(RegistersDefault,
                     "A7", ToWord(SYS_WRITE)), "A0", ToWord(1)), "A2", ToWord(4))
    IN  {RegistersDefault, ready, RegistersSet(ready, "A1", MaxWord)}

InitImage ==
    /\ pc = ZeroWord
    /\ \E prog \in Programs : \E S \in ImageParts(prog) : mem = MemoryFromPart(prog, S)
    /\ regs \in ImageRegs
    /\ stdout \in {None, Some(<<>>)}
    /\ overflow_checks \in BOOLEAN
    /\ status = "running"
    /\ result = NoResult
    /\ last = [op |-> "run", rd |-> ""]
    /\ writes = <<>>
    /\ fetched = <<>>

\* the head of run's loop (`loop { let instruction = self.next()?; ...`): while
\* the machine runs, the loop comes round to its next fetch
LoopHead == status = "running" /\ fetched' = Append(fetched, pc)

SpecImage == InitImage /\ [][NextRun]_vars /\ WF_fetched(LoopHead)

----------------------------------------------------------------------------
(* Vocabulary of the properties *)

\* the value every register reads
Reads(rs) == [r \in RegisterID |-> RegistersGet(rs, r)]

\* the address of the n-th byte, n small
Addr(n) == <<0, n>>

IsPrefix(s, t) == Len(s) <= Len(t) /\ SubSeq(t, 1, Len(s)) = s

RECURSIVE Flatten(_)
Flatten(ss) == IF ss = <<>> THEN <<>> ELSE Head(ss) \o Flatten(Tail(ss))

\* (a + b + imm) mod 2^32 on halves
SumMod32(a, b, imm) ==
    LET lo == a[2] + b[2] + imm
        hi == a[1] + b[1] + (lo \div Half)
    IN  <<hi % Half, lo % Half>>

\* the pc four bytes on, for a pc in the low half of the address space
PcPlus4(p) == <<p[1], p[2] + 4>>

\* the bytes at addr, addr+1, ..., addr+len-1 (addresses modulo 2^32), unmapped as 0
BufferAt(addr, len) ==
    [i \in 1..len |->
        LET a == SumMod32(addr, ZeroWord, i - 1)
        IN  IF a \in DOMAIN mem THEN mem[a] ELSE 0]

A0 == RegistersGet(regs, "A0")
A1 == RegistersGet(regs, "A1")
A2 == RegistersGet(regs, "A2")
A7 == RegistersGet(regs, "A7")

AtOpcode(op) == status = "running" /\ Dispatch = op

----------------------------------------------------------------------------
\* the step is a register write whose destination is X0
C1_WriteToX0 ==
    /\ last'.rd = "X0"
    /\ last'.op \in {"set", "LoadImmediate", "Add"}

(* C1: X0 reads 0 in every reachable state, whatever Registers.set calls and *)
(* instructions (LoadImmediate and Add with rd = X0 included) came before,   *)
(* and a write whose destination is X0 leaves the value read from every      *)
(* register as it was.                                                       *)
C1_X0IsHardwiredZero ==
    /\ [](RegistersGet(regs, "X0") = ZeroWord)
    /\ [][C1_WriteToX0 => Reads(regs') = Reads(regs)]_vars

C1_Witness ==
    /\ last.op = "Add"
    /\ last.rd = "X0"
    /\ status = "running"
    /\ "X0" \in DOMAIN regs
    /\ A1 = MaxWord

(* C2: when fetch+decode fails at pc = p, run returns the decode error and   *)
(* the failing cycle changes nothing: pc is still p, registers, memory and   *)
(* sink are as the earlier instructions left them.                           *)
C2_DecodeFaultReturnsUnchanged ==
    [][AtOpcode("error") =>
        /\ status' = "returned"
        /\ result' = InstructionTryFrom(FetchWord(mem, pc)).error
        /\ result'.kind = "Err"
        /\ pc' = pc
        /\ regs' = regs
        /\ mem' = mem
        /\ stdout' = stdout]_vars

C2_Witness ==
    /\ last.op = "fault"
    /\ status = "returned"
    /\ result = Err("OpcodeUnknown", ToWord(31))
    /\ pc = Addr(4)
    /\ A1 = ToWord(3)

(* C3: when the instruction decoded at pc = p is EBreak, run returns success *)
(* with pc = p + 4, and the cycle changes no register, memory byte or sink   *)
(* output.                                                                   *)
C3_EBreakHaltsPastItself ==
    [][AtOpcode("EBreak") =>
        /\ status' = "returned"
        /\ result' = Ok
        /\ pc' = PcPlus4(pc)
        /\ regs' = regs
        /\ mem' = mem
        /\ stdout' = stdout]_vars

C3_Witness ==
    /\ last.op = "EBreak"
    /\ status = "returned"
    /\ result = Ok
    /\ pc = Addr(8)

(* C4: Add sets rd to (rs1 + rs2 + imm) mod 2^32 (0 when rd is X0) for all   *)
(* register values and immediates, sums past 2^32 - 1 included, and never    *)
(* aborts.                                                                   *)
C4_AddWrapsWithoutAbort ==
    [][AtOpcode("Add") =>
        /\ status' = "running"
        /\ RegistersGet(regs', Decoded.rd) =
              IF Decoded.rd = "X0" THEN ZeroWord
              ELSE SumMod32(RegistersGet(regs, Decoded.rs1),
                            RegistersGet(regs, Decoded.rs2), Decoded.imm)]_vars

\* rd and imm of the instruction at address 0, read off the image bytes
C5_Rd == RegisterNames[(((mem[Addr(2)] * Byte + mem[Addr(3)]) \div 32) % 16) + 1]

C5_Imm == (mem[Addr(0)] * Byte + mem[Addr(1)]) \div 2

(* C5: from the zeroed machine, LoadImmediate(rd, imm) at 0 and EBreak at 4  *)
(* run to success with rd reading imm (0 when rd is X0), every other         *)
(* register reading 0 and pc = 8.                                            *)
C5_LoadImmediateProgram ==
    /\ status \in {"running", "returned"}
    /\ status = "running" => Dispatch \in {"LoadImmediate", "EBreak"}
    /\ status = "returned" =>
          /\ result = Ok
          /\ pc = Addr(8)
          /\ Reads(regs) = [r \in RegisterID |->
                               IF r = C5_Rd /\ r # "X0" THEN <<0, C5_Imm>> ELSE ZeroWord]

C5_Witness ==
    /\ status = "returned"
    /\ C5_Rd = "SP"
    /\ C5_Imm = 32767
    /\ RegistersGet(regs, "SP") = <<0, 32767>>

(* C6: ECall with A7 = 64, A0 = 1 and a sink attached appends exactly the    *)
(* A2 bytes mem.get(A1), ..., mem.get(A1+A2-1), in order, and changes no     *)
(* register and no memory byte.                                              *)
C6_WriteAppendsBuffer ==
    [][(AtOpcode("ECall") /\ A7 = ToWord(64) /\ A0 = ToWord(1) /\ stdout.some) =>
        /\ stdout'.some
        /\ stdout'.data = stdout.data \o BufferAt(A1, WordToNat(A2))
        /\ regs' = regs
        /\ mem' = mem]_vars

\* the buffers of the executed Write syscalls, read from memory
C7_Buffers == [k \in 1..Len(writes) |-> BufferAt(writes[k].addr, writes[k].len)]

(* C7: the sink is append-only and in program order: its content is always   *)
(* the concatenation, in execution order, of the buffers of the Write        *)
(* syscalls executed so far, and every step leaves it unchanged or extends   *)
(* it at the end.                                                            *)
C7_SinkAppendOnlyInOrder ==
    /\ [](stdout.some => stdout.data = Flatten(C7_Buffers))
    /\ [][stdout'.some = stdout.some /\ IsPrefix(stdout.data, stdout'.data)]_vars

C7_Witness ==
    /\ stdout.some
    /\ Len(writes) = 2
    /\ stdout.data = <<0, 0, 0, 23, 23, 0, 6, 0>>

(* C8: when ECall executes with A7 = v, v not 64, run returns the            *)
(* unknown-syscall error carrying v; the cycle writes no register, memory    *)
(* byte or sink output, and only advances pc by 4.                           *)
C8_UnknownSyscall ==
    [][(AtOpcode("ECall") /\ A7 # ToWord(64)) =>
        /\ status' = "returned"
        /\ result' = Err("SyscallUnknown", A7)
        /\ pc' = PcPlus4(pc)
        /\ regs' = regs
        /\ mem' = mem
        /\ stdout' = stdout]_vars

C8_Witness ==
    /\ last.op = "ECall"
    /\ status = "returned"
    /\ result = Err("SyscallUnknown", ToWord(63))
    /\ pc = Addr(8)

(* C9: the Write syscall with A0 not 1 aborts: run returns neither success   *)
(* nor a typed error, nothing reaches the sink, with or without a sink       *)
(* attached.                                                                 *)
C9_BadDescriptorAborts ==
    [][(AtOpcode("ECall") /\ A7 = ToWord(64) /\ A0 # ToWord(1)) =>
        /\ status' = "aborted"
        /\ result' = Panic(FdMsg)
        /\ stdout' = stdout]_vars

C9_Witness ==
    /\ last.op = "ECall"
    /\ status = "aborted"
    /\ result = Panic(FdMsg)
    /\ ~stdout.some
    /\ A0 = ToWord(5)

(* C10: the Write syscall with A0 = 1 and no sink attached raises no error   *)
(* and discards the bytes: registers and memory unchanged, pc advanced by 4, *)
(* run goes on with the next instruction.                                    *)
C10_AbsentSinkDiscards ==
    [][(AtOpcode("ECall") /\ A7 = ToWord(64) /\ A0 = ToWord(1) /\ ~stdout.some) =>
        /\ status' = "running"
        /\ result' = NoResult
        /\ pc' = PcPlus4(pc)
        /\ regs' = regs
        /\ mem' = mem
        /\ stdout' = stdout]_vars

\* the addresses the cycle at pc reads: the four of the fetch and, when the
\* Write syscall hands a buffer to the sink, the buffer's
C11_AddressesRead ==
    {SumMod32(pc, ZeroWord, k) : k \in 0..3} \cup
    (IF Dispatch = "ECall" /\ WriteExecuted
     THEN {SumMod32(A1, ZeroWord, k) : k \in 0..(WordToNat(A2) - 1)}
     ELSE {})

(* C11: the execution engine never changes memory: every step of run leaves  *)
(* the mapping (domain and values) as Memory::from loaded it, and a fetch or *)
(* a Write-buffer read of an unmapped address yields 0 and inserts no entry. *)
C11_MemoryIsReadOnly ==
    [][status = "running" =>
        /\ mem' = mem
        /\ DOMAIN mem' = DOMAIN mem
        /\ \A a \in C11_AddressesRead \ DOMAIN mem :
               MemoryGet(mem, a) = 0 /\ a \notin DOMAIN mem']_vars

\* a Write syscall has read from the unmapped top of the address space and
\* the next fetch has read four unmapped bytes
C11_Witness ==
    /\ last.op = "fault"
    /\ pc \notin DOMAIN mem
    /\ Len(writes) = 1
    /\ writes[1].addr = MaxWord
    /\ writes[1].len = 4
    /\ MaxWord \notin DOMAIN mem
    /\ DOMAIN mem = {Addr(k) : k \in 0..3}

\* the byte at address k as the spec reads it: 0 where nothing is mapped
ByteAt(k) == IF Addr(k) \in DOMAIN mem THEN mem[Addr(k)] ELSE 0

\* the fields of the word at address 0, from its bytes: opcode = bits 0-4,
\* rd = bits 5-8, rs1 = bits 9-12, rs2 = bits 13-16, imm = bits 17-31
OpcodeField == ByteAt(3) % 32
RdField == (ByteAt(3) \div 32) + (ByteAt(2) % 2) * 8
Rs1Field == (ByteAt(2) \div 2) % 16
Rs2Field == (ByteAt(2) \div 32) + (ByteAt(1) % 2) * 8
ImmField == ByteAt(0) * 128 + (ByteAt(1) \div 2)

DefinedOpcodes == {1, 2, 23, 24}

NextCalled == last.op = "next"

(* C12: a word whose low 5 bits are none of 1, 2, 23, 24 fails to decode     *)
(* with the unknown-opcode error carrying exactly those 5 bits, whatever the *)
(* register and immediate fields hold.                                       *)
C12_UnknownOpcodeCarriesLowBits ==
    (NextCalled /\ OpcodeField \notin DefinedOpcodes) =>
        result = Err("OpcodeUnknown", <<0, OpcodeField>>)

\* opcode field 31 under all-ones register fields and a non-zero immediate
C12_Witness ==
    /\ NextCalled
    /\ OpcodeField = 31
    /\ RdField = 15 /\ Rs1Field = 15 /\ Rs2Field = 15
    /\ ImmField = 128
    /\ result = Err("OpcodeUnknown", <<0, 31>>)

\* the register each encoding 0..15 names, in the order of the specification
RegisterOfEncoding ==
    <<"X0", "A0", "A1", "A2", "A3", "A4", "A5", "A6", "A7", "A8", "A9", "A10",
      "A11", "A12", "RA", "SP">>

OpcodeOfEncoding(n) ==
    CASE n = 1 -> "LoadImmediate" [] n = 2 -> "Add" [] n = 23 -> "ECall" [] n = 24 -> "EBreak"

(* C13: a word whose low 5 bits are 1, 2, 23 or 24 decodes successfully to   *)
(* that opcode with rd, rs1, rs2 the registers encoded in bits 5-8, 9-12 and *)
(* 13-16 (0..15 onto X0, A0..A12, RA, SP, one-to-one) and imm = bits 17-31;  *)
(* decoding a word never returns the unknown-register or the                 *)
(* immediate-conversion error.                                               *)
C13_DefinedOpcodeDecodesFields ==
    /\ result.code \notin {"RegisterUnknown", "ImmediateValue"}
    /\ Cardinality({RegisterOfEncoding[n] : n \in 1..16}) = 16
    /\ (NextCalled /\ OpcodeField \in DefinedOpcodes) =>
          /\ result = Ok
          /\ last.instr = [opcode |-> OpcodeOfEncoding(OpcodeField),
                           rd |-> RegisterOfEncoding[RdField + 1],
                           rs1 |-> RegisterOfEncoding[Rs1Field + 1],
                           rs2 |-> RegisterOfEncoding[Rs2Field + 1],
                           imm |-> ImmField]

\* Add SP, A3, A9, 0x7fff: rs2 straddles the two halves of the word
C13_Witness ==
    /\ NextCalled
    /\ OpcodeField = 2
    /\ RdField = 15 /\ Rs1Field = 4 /\ Rs2Field = 10
    /\ ImmField = 32767
    /\ result = Ok
    /\ last.instr = [opcode |-> "Add", rd |-> "SP", rs1 |-> "A3", rs2 |-> "A9", imm |-> 32767]

\* the four bytes of the word at address 0 as big-endian halves
BigEndianHalves == <<ByteAt(0) * 256 + ByteAt(1), ByteAt(2) * 256 + ByteAt(3)>>

(* C15: the word fetched at p is mem.get(p) * 2^24 + mem.get(p+1) * 2^16 +   *)
(* mem.get(p+2) * 2^8 + mem.get(p+3), an unmapped address contributing 0: a  *)
(* partially mapped word is still fetched and decoded.                       *)
C15_FetchIsBigEndian ==
    NextCalled =>
        /\ last.word = BigEndianHalves
        /\ (result = Ok) = (OpcodeField \in DefinedOpcodes)
        /\ result = Ok => last.instr.imm = ImmField

\* only the opcode byte is mapped: the word 0x00000002 is fetched and decodes
C15_Witness ==
    /\ NextCalled
    /\ DOMAIN mem = {Addr(3)}
    /\ mem[Addr(3)] = 2
    /\ last.word = <<0, 2>>
    /\ result = Ok
    /\ last.instr = [opcode |-> "Add", rd |-> "X0", rs1 |-> "X0", rs2 |-> "X0", imm |-> 0]

Terminated == status \in {"returned", "aborted"}

\* run returned success from EBreak
Halted == last.op = "EBreak" /\ status = "returned" /\ result = Ok

\* run returned the error of a failed fetch and decode
Faulted == last.op = "fault" /\ status = "returned" /\ result.kind = "Err"

OthersKept(reg) ==
    \A r \in RegisterID \ {reg} : RegistersGet(regs', r) = RegistersGet(regs, r)

\* the Write buffer's addresses run past the top of the address space
BufferWraps ==
    \E k \in 1..(WordToNat(A2) - 1) : SumMod32(A1, ZeroWord, k)[1] < A1[1]

\* how an ECall cycle ends, from the registers and the build alone
ECallOutcome ==
    IF A7 # ToWord(64) THEN "unknown"
    ELSE IF A0 # ToWord(1) THEN "descriptor"
    ELSE IF overflow_checks /\ BufferWraps THEN "overflow"
    ELSE "written"

\* the step is the one an ECall word makes, whatever its other fields hold
ECallStep ==
    /\ pc' = PcPlus4(pc)
    /\ mem' = mem
    /\ status' = (CASE ECallOutcome = "unknown" -> "returned"
                    [] ECallOutcome = "written" -> "running"
                    [] OTHER                    -> "aborted")
    /\ result' = (CASE ECallOutcome = "unknown"    -> Err("SyscallUnknown", A7)
                    [] ECallOutcome = "descriptor" -> Panic(FdMsg)
                    [] ECallOutcome = "overflow"   -> Panic(OverflowMsg)
                    [] OTHER                       -> NoResult)
    /\ stdout' = IF ECallOutcome = "written" /\ stdout.some
                 THEN Some(stdout.data \o BufferAt(A1, WordToNat(A2)))
                 ELSE stdout

\* the step is the one an EBreak word makes, whatever its other fields hold
EBreakStep ==
    /\ pc' = PcPlus4(pc)
    /\ mem' = mem
    /\ status' = "returned"
    /\ result' = Ok
    /\ stdout' = stdout

(* C16: an executed instruction changes at most one register: LoadImmediate  *)
(* and Add change none but their rd; ECall and EBreak change none, and what  *)
(* they do is the same for every value of their rd, rs1, rs2 and imm fields. *)
C16_AtMostRdChanges ==
    [][/\ (AtOpcode("LoadImmediate") \/ AtOpcode("Add")) => OthersKept(Decoded.rd)
       /\ AtOpcode("ECall") => (Reads(regs') = Reads(regs) /\ ECallStep)
       /\ AtOpcode("EBreak") => (Reads(regs') = Reads(regs) /\ EBreakStep)]_vars

\* an ECall word with rd = SP, rs1 = A3, rs2 = A9, imm = 0x7fff has written
\* three bytes, on a register file with every register non-zero but X0
C16_Witness ==
    /\ last.op = "ECall"
    /\ last.rd = "SP"
    /\ status = "running"
    /\ mem = MemoryFrom(<<Encode(23, 15, 4, 10, 32767)>>)
    /\ stdout = Some(<<73, 247, 0>>)
    /\ RegistersGet(regs, "SP") = ToWord(15)

\* the number of calls of Machine::next that returned an instruction
DecodedCount == Len(fetched) - (IF last.op = "fault" THEN 1 ELSE 0)

NeverFetchedTwice ==
    \A i, j \in DOMAIN fetched : i # j => fetched[i] # fetched[j]

(* C17: from pc = 0, in every reachable state pc is a multiple of 4 and is   *)
(* 4 times the number of instructions decoded so far; a cycle moves pc by 4  *)
(* when the word decodes and by 0 when it does not, whatever its operands,   *)
(* so pc never decreases and no address is fetched twice.                    *)
C17_PcCountsDecodedInstructions ==
    /\ [](/\ pc[1] = 0
          /\ pc[2] % 4 = 0
          /\ pc[2] = 4 * DecodedCount
          /\ NeverFetchedTwice)
    /\ [][/\ pc'[1] = pc[1] /\ pc'[2] >= pc[2]
          /\ (status = "running" /\ Dispatch = "error") => pc' = pc
          /\ (status = "running" /\ Dispatch # "error") => pc' = PcPlus4(pc)]_vars

\* two instructions decoded, the third fetch failed
C17_Witness ==
    /\ pc = Addr(8)
    /\ fetched = <<Addr(0), Addr(4), Addr(8)>>
    /\ last.op = "fault"
    /\ status = "returned"
    /\ RegistersGet(regs, "A0") # ZeroWord

\* the least N with every mapped address below N (images here lie below 2^16)
ImageBound ==
    IF DOMAIN mem = {} THEN 0
    ELSE (CHOOSE a \in DOMAIN mem : \A b \in DOMAIN mem : b[2] <= a[2])[2] + 1

(* C18: over an image whose mapped addresses are all below N, run from       *)
(* pc = 0 makes at most N/4 + 1 fetches and terminates, by EBreak, a         *)
(* returned error or an abort.                                               *)
C18_RunTerminates ==
    /\ [](Len(fetched) <= (ImageBound \div 4) + 1)
    /\ [](status \in {"running", "returned", "aborted"})
    /\ <>Terminated

\* seven bytes mapped: one instruction ran and the fetch of the partly mapped
\* second word ended the run, N \div 4 + 1 = 2 fetches in all
C18_Witness ==
    /\ Terminated
    /\ ImageBound = 7
    /\ Len(fetched) = 2
    /\ last.op = "fault"
    /\ mem[Addr(6)] # 0

\* none of the four bytes at pc is mapped
PastTheImage == \A k \in 0..3 : SumMod32(pc, ZeroWord, k) \notin DOMAIN mem

\* run returned the unknown-opcode error carrying 0, pc at the unmapped word
RanOffTheEnd ==
    /\ status = "returned"
    /\ last.op = "fault"
    /\ result = Err("OpcodeUnknown", ZeroWord)
    /\ PastTheImage

(* C19: the all-zero word is no instruction: when pc is at four unmapped     *)
(* bytes the cycle returns the unknown-opcode error carrying 0, leaving pc,  *)
(* the registers and the sink as the instructions before left them; a run    *)
(* that meets no EBreak and no other error (unknown syscall, abort, a mapped *)
(* word that does not decode) ends this way.                                 *)
C19_RunningOffTheEndFaults ==
    /\ [][(status = "running" /\ PastTheImage) =>
            /\ RanOffTheEnd'
            /\ pc' = pc
            /\ regs' = regs
            /\ stdout' = stdout
            /\ mem' = mem]_vars
    /\ [](Terminated =>
            \/ RanOffTheEnd
            \/ last.op = "EBreak"
            \/ status = "aborted"
            \/ result.code = "SyscallUnknown"
            \/ last.op = "fault" /\ ~PastTheImage)
    /\ (status = "running" /\ PastTheImage) ~> RanOffTheEnd

\* the image holds LoadImmediate A1, 3 alone: run returned the error at pc = 4
\* and A1 holds 3
C19_Witness ==
    /\ RanOffTheEnd
    /\ pc = Addr(4)
    /\ mem = MemoryFrom(<<Encode(1, 2, 0, 0, 3)>>)
    /\ RegistersGet(regs, "A1") = ToWord(3)
    /\ fetched = <<Addr(0), Addr(4)>>

====
